---- MODULE Spec2Model ----
(***************************************************************************)
(* Model of the workflow test environment of                              *)
(* src/internal_workflow_testsuite.go: the main loop, the callback         *)
(* channel, the mock clock with its timers, the wall-clock guards, the     *)
(* activity goroutines, mocks with a wait duration, cancellation,          *)
(* heartbeat, CompleteActivity and child workflows.                        *)
(*                                                                         *)
(* Time is counted in seconds.  The workflow code is any program: inside   *)
(* a decision task it may call NewTimer, ExecuteActivity,                  *)
(* ExecuteChildWorkflow, RequestCancelActivity, RequestCancelTimer,        *)
(* RequestCancelWorkflow and Complete in any order.  The activity-started  *)
(* and child-started listeners are not installed; the other listeners      *)
(* only observe.                                                           *)
(***************************************************************************)
EXTENDS Integers, Sequences, FiniteSets, TLC

VARIABLES
    pc,               \* position of the main-loop thread
    queue,            \* callbackChannel
    nPosted,          \* history: callbacks sent to callbackChannel so far
    lastSeq,          \* history: number of the callback last received
    mockNow,          \* mockClock.Now()
    wallNow,          \* wallClock.Now()
    waitStart,        \* wall time at which time.After(testTimeout) was armed
    counterID,        \* counterID
    timers,           \* timers: timer id string -> testTimerHandle
    clockTimers,      \* the mock clock's own list of armed timers
    wallTimers,       \* armed wall-clock AfterFunc timers
    activities,       \* activities: activity id string -> testActivityHandle
    runningCount,     \* runningCount
    isTestCompleted,  \* isTestCompleted
    testError,        \* testError
    wf,               \* the root workflow function and its mock goroutine
    act,              \* the activity goroutines, in launch order
    delivered,        \* history: what each activity's callback was invoked with
    fireOrder,        \* history: the timers in the order their fire callbacks were sent
    lastOp,           \* history: the run of cancel requests the workflow just made
    nNoop,            \* history: cancel requests that found no handle
    hb,               \* history: the heartbeats recorded
    nComplete,        \* history: CompleteActivity calls
    childWorkflows,   \* childWorkflows: child workflow id -> testChildWorkflowHandle
    child,            \* the child Envs and their goroutines, in launch order
    cur,              \* the Env whose decision task runs (0: the root Env)
    choices,          \* history: the calls the root workflow has made, when recorded
    events            \* history: the timer listeners' events, when recorded

vars == <<pc, queue, nPosted, lastSeq, mockNow, wallNow, waitStart, counterID,
          timers, clockTimers, wallTimers, activities, runningCount,
          isTestCompleted, testError, wf, act, delivered, fireOrder, lastOp,
          nNoop, hb, nComplete, childWorkflows, child, cur, choices, events>>

\* the recorded history of a run
histVars == <<choices, events>>

\* the child workflows
childVars == <<childWorkflows, child, cur>>

\* the program's state without the history variables
progVars == <<pc, queue, mockNow, wallNow, waitStart, counterID, timers,
              clockTimers, wallTimers, activities, runningCount,
              isTestCompleted, testError, wf, act, childWorkflows, child, cur>>

-----------------------------------------------------------------------------
\* Bounds of the model

\* Spec, every operation together:
\* values the id counter may hand out
MaxID == 1
\* activities the workflow may start
MaxAct == 1
\* seconds of wall time that may pass
MaxWall == 3
\* longest timer duration, in seconds
MaxDur == 1
\* heartbeats the activities may record
MaxHeartbeat == 1
\* CompleteActivity calls of the test author
MaxComplete == 1
\* cancel requests that find no handle
MaxNoop == 1

\* SpecTimers, a workflow of timers beside one activity:
TimersMaxID == 2
TimersMaxWall == 3
TimersMaxDur == 2
\* one-shot activity executions before the workflow is executed
OneShotMax == 1
\* the guards: two timers, two activities one after the other
GuardsMaxID == 2
GuardsMaxAct == 2
GuardsMaxDur == 2
GuardsMaxWall == 2

\* SpecActivities, a workflow of activities:
ActivitiesMaxID == 1
ActivitiesMaxAct == 2
ActivitiesMaxComplete == 1

\* SpecMock, a workflow of two activities mocked with wait durations and a timer:
\* the shorter wait duration, the timer's duration and the longer wait duration
MockWaitShort == 5
MockTimer == 7
MockWaitLong == 10
MockMaxWall == 3
MockMaxAct == 2
MockMaxID == 3

\* SpecVirtual
VirtualMaxID == 3
VirtualMaxDur == 2
VirtualMaxWall == 3
VirtualMaxNoop == 1

\* SpecQueue
QueueTimer == 1

\* SpecChildren
ChildrenMax == 2
ChildrenMaxID == 2
ChildrenMaxNoop == 1
\* calls of Complete on an Env that has completed, and no-op cancels
CompleteMaxNoop == 2

\* Program constants
TestTimeout == 3
QueueCap == 1000

Durations(maxDur) == 1 .. maxDur
ExplicitIDs == {"a"}
defaultTestRunID == "default-test-run-id"
\* the workflow ids a parent gives its children itself
ExplicitChildIDs == {"c"}
\* the test installs SetOnChildWorkflowCanceledListener
onChildWorkflowCanceledListener == TRUE
\* what taskHandler.Execute returns: a response ("completed" stands for a
\* completed, failed or canceled response, which handleActivityResult treats
\* alike) or nil for ErrActivityResultPending
ActResults == {"completed", "pending"}

-----------------------------------------------------------------------------
\* Helpers

\* marks a run whose calls and listener events are not recorded
OffMark == [op |-> "off", d |-> 0, id |-> ""]

Recording == choices = <<>> \/ Head(choices).op # "off"

\* the root workflow has called op
record(op, d, id) ==
    IF Recording THEN Append(choices, [op |-> op, d |-> d, id |-> id]) ELSE choices

\* a timer listener is invoked
notify(ev, id) ==
    IF Recording THEN Append(events, [ev |-> ev, id |-> id]) ELSE events

Digits == <<"0", "1", "2", "3", "4", "5", "6", "7", "8", "9">>

RECURSIVE getStringID(_)
getStringID(intID) ==
    IF intID < 10 THEN Digits[intID + 1]
    ELSE getStringID(intID \div 10) \o Digits[(intID % 10) + 1]

nextID == counterID

Without(f, k) == [x \in DOMAIN f \ {k} |-> f[x]]

Cb(kind, startDecisionTask, id, n, res) ==
    [kind |-> kind, startDecisionTask |-> startDecisionTask, id |-> id,
     n |-> n, res |-> res, seq |-> 0]

NoOp == [op |-> "none", id |-> "", run |-> 0, posts |-> 0]

\* Same as postCallback, but puts the callback at the front of the channel.
postCallbackFront(q, c) == <<c>> \o q

postCallback(q, c) == Append(q, c)

RECURSIVE postAll(_, _, _)
postAll(q, cs, np) ==
    IF cs = <<>> THEN q
    ELSE postAll(postCallback(q, [Head(cs) EXCEPT !.seq = np + 1]), Tail(cs), np + 1)

\* sends the callbacks cs, in order, to the channel whose content is q
Post(q, cs) ==
    /\ Len(q) + Len(cs) <= QueueCap
    /\ queue' = postAll(q, cs, nPosted)
    /\ nPosted' = nPosted + Len(cs)

\* the callbacks cs fit into the channel whose content is q
Fits(q, cs) == Len(q) + Len(cs) <= QueueCap

\* a postCallback of the main-loop thread finds the channel full: the thread
\* blocks in the send, and no other thread receives from the channel
MainPostBlocks(q, cs) == ~Fits(q, cs)

\* postCallback called by the main-loop thread for the callbacks cs, in order
MainPost(q, cs) ==
    LET sent == IF MainPostBlocks(q, cs) THEN SubSeq(cs, 1, QueueCap - Len(q)) ELSE cs
    IN  /\ queue' = postAll(q, sent, nPosted)
        /\ nPosted' = nPosted + Len(sent)

\* where the main-loop thread is after MainPost(q, cs)
AfterPost(q, cs, next) == IF MainPostBlocks(q, cs) THEN "blockedInPost" ELSE next

\* Same as SelectDefault, but the default branch may be taken with callbacks waiting.
SelectDefaultAlways(q) == TRUE

\* the non-blocking select takes its default branch
SelectDefault(q) == q = <<>>

\* what startDecisionTask leads to once a callback has run
startDecisionTask == IF isTestCompleted THEN "select" ELSE "dispatch"

AfterCallback(c) == IF c.startDecisionTask THEN startDecisionTask ELSE "select"

-----------------------------------------------------------------------------
\* The mock clock

RemoveAt(s, i) == [j \in 1 .. (Len(s) - 1) |-> IF j < i THEN s[j] ELSE s[j + 1]]

\* Same as runNextTimer, but among equal deadlines the newest timer runs first.
runNextTimerNewest(cts, max) ==
    LET due == {i \in 1 .. Len(cts) : cts[i].next <= max}
    IN  IF due = {} THEN 0
        ELSE CHOOSE i \in due : \A j \in due :
                 \/ cts[i].next < cts[j].next
                 \/ cts[i].next = cts[j].next /\ i >= j

\* the index of the timer the mock clock runs next on its way to max (0: none):
\* the earliest deadline, and among equal deadlines the timer armed first
runNextTimer(cts, max) ==
    LET due == {i \in 1 .. Len(cts) : cts[i].next <= max}
    IN  IF due = {} THEN 0
        ELSE CHOOSE i \in due : \A j \in due :
                 \/ cts[i].next < cts[j].next
                 \/ cts[i].next = cts[j].next /\ i <= j

\* Same as mockClockAdd, but only the timers due at max itself are run.
mockClockAddLast(cts, max) == SelectSeq(cts, LAMBDA t : t.next = max)

\* the timers mockClock.Add runs, in order, on its way to max
RECURSIVE mockClockAdd(_, _)
mockClockAdd(cts, max) ==
    LET i == runNextTimer(cts, max)
    IN  IF i = 0 THEN <<>>
        ELSE <<cts[i]>> \o mockClockAdd(RemoveAt(cts, i), max)

InSeq(x, s) == \E i \in 1 .. Len(s) : s[i] = x

\* fireTimer(th), called with the channel content q: the clock moves by
\* skipDuration, every timer due on the way is deleted and its callback
\* posted; next is where the main-loop thread goes on. When the channel gets
\* full on the way, the timer whose callback does not fit is deleted, the clock
\* stands at its deadline and the thread is blocked in postCallback.
fireTimer(th, q, next) ==
    LET skipDuration == th.mockTimeToFire - mockNow
        due == mockClockAdd(clockTimers, mockNow + skipDuration)
        blocks == MainPostBlocks(q, due)
        room == QueueCap - Len(q)
        fired == IF blocks THEN SubSeq(due, 1, room + 1) ELSE due
        sent == IF blocks THEN SubSeq(due, 1, room) ELSE due
    IN  /\ mockNow' = IF blocks THEN due[room + 1].next ELSE mockNow + skipDuration
        /\ clockTimers' = SelectSeq(clockTimers, LAMBDA t : ~InSeq(t, fired))
        /\ timers' = [k \in {x \in DOMAIN timers :
                                \A i \in 1 .. Len(fired) : fired[i].id # timers[x].timerID}
                          |-> timers[k]]
        /\ Post(q, [i \in 1 .. Len(sent) |->
                        Cb("timerFired", TRUE, getStringID(sent[i].id), sent[i].id, "")])
        /\ fireOrder' = fireOrder \o sent
        /\ pc' = AfterPost(q, due, next)

\* Same as nextTimer, but the timer that fires last is picked.
nextTimerLatest ==
    CHOOSE t \in {timers[k] : k \in DOMAIN timers} :
        \A u \in {timers[k] : k \in DOMAIN timers} :
            \/ t.mockTimeToFire > u.mockTimeToFire
            \/ t.mockTimeToFire = u.mockTimeToFire /\ t.timerID >= u.timerID

\* the handle autoFireNextTimer picks
nextTimer ==
    CHOOSE t \in {timers[k] : k \in DOMAIN timers} :
        \A u \in {timers[k] : k \in DOMAIN timers} :
            \/ t.mockTimeToFire < u.mockTimeToFire
            \/ t.mockTimeToFire = u.mockTimeToFire /\ t.timerID <= u.timerID

\* a Stop that leaves the guard armed
StopWallTimerKept(id) == wallTimers

StopWallTimer(id) == {w \in wallTimers : w.id # id}

\* Same as mockClockAfter, but the delay is counted backwards.
mockClockBefore(now, d) == now - d

\* Same as mockClockAfter, but the delay is dropped.
mockClockAfterNow(now, d) == now

\* the deadline of mockClock.AfterFunc(d, ...) and of mockClock.Now().Add(d)
mockClockAfter(now, d) == now + d

\* newTimer(d, callback, notifyListener): a new id, a timer of the mock clock
\* and a handle in the registry. stoppedGuard is history: the wall-fire-time of
\* the guard the auto-fire policy stopped last to arm another one (0: none)
newTimer(d) ==
    /\ counterID' = counterID + 1
    /\ clockTimers' = Append(clockTimers,
                             [id |-> nextID, next |-> mockClockAfter(mockNow, d)])
    /\ timers' = (getStringID(nextID) :>
                     [timerID |-> nextID,
                      mockTimeToFire |-> mockClockAfter(mockNow, d),
                      wallTimeToFire |-> wallNow + d,
                      wallTimer |-> FALSE,
                      stoppedGuard |-> 0]) @@ timers

-----------------------------------------------------------------------------
\* Callbacks, run by the main loop under the lock

\* workflowExecutorWrapper.Execute on the root Env, up to its Receive: the
\* running count is raised and the mock goroutine is started
workflowExecute(c, q) ==
    /\ runningCount' = runningCount + 1
    /\ wf' = "mock"
    /\ pc' = AfterCallback(c)
    /\ Post(q, <<>>)
    /\ UNCHANGED <<mockNow, counterID, timers, clockTimers, wallTimers, activities,
                   delivered, fireOrder>>

\* the mock goroutine's callback: SendAsync, then the decision task in which
\* the workflow resumes from Receive and lowers the running count
mockReady(c, q) ==
    /\ IF isTestCompleted
       THEN UNCHANGED <<runningCount, wf>>
       ELSE runningCount' = runningCount - 1 /\ wf' = "running"
    /\ pc' = AfterCallback(c)
    /\ Post(q, <<>>)
    /\ UNCHANGED <<mockNow, counterID, timers, clockTimers, wallTimers, activities,
                   delivered, fireOrder>>

\* Same as PendingResult, but a nil response is handled like any other.
PendingResultIgnored(result) == FALSE

\* handleActivityResult's test result == nil
PendingResult(result) == result = "pending"

\* handleActivityResult(activityID, result, ...); from is the goroutine the
\* result comes from (0: CompleteActivity)
handleActivityResult(activityID, result, from, q) ==
    /\ IF PendingResult(result) \/ activityID \notin DOMAIN activities
       THEN /\ pc' = "select"
            /\ UNCHANGED <<activities, delivered>>
       ELSE /\ activities' = Without(activities, activityID)
            /\ delivered' = [delivered EXCEPT ![activities[activityID].callback] =
                                Append(@, [res |-> result, from |-> from])]
            /\ pc' = startDecisionTask
    /\ Post(q, <<>>)
    /\ UNCHANGED <<mockNow, counterID, timers, clockTimers, wallTimers, runningCount,
                   wf, fireOrder>>

\* the callback CompleteActivity posts
completeActivityCallback(c, q) ==
    IF c.id \in DOMAIN activities
    THEN handleActivityResult(c.id, c.res, 0, q)
    ELSE /\ pc' = "select"
         /\ Post(q, <<>>)
         /\ UNCHANGED <<mockNow, counterID, timers, clockTimers, wallTimers,
                        activities, runningCount, wf, delivered, fireOrder>>

\* the callback RequestCancelActivity posts: handle.callback(nil, NewCanceledError())
cancelActivityCallback(c, q) ==
    /\ delivered' = [delivered EXCEPT ![c.n] =
                        Append(@, [res |-> "cancelRequested", from |-> c.n])]
    /\ pc' = AfterCallback(c)
    /\ Post(q, <<>>)
    /\ UNCHANGED <<mockNow, counterID, timers, clockTimers, wallTimers, activities,
                   runningCount, wf, fireOrder>>

\* the callbacks that only invoke a user callback or a listener: a timer's
\* callback(nil, nil), its callback(nil, NewCanceledError()), the heartbeat listener
listenerCallback(c, q) ==
    /\ pc' = AfterCallback(c)
    /\ Post(q, <<>>)
    /\ UNCHANGED <<mockNow, counterID, timers, clockTimers, wallTimers, activities,
                   runningCount, wf, delivered, fireOrder>>

\* the callback a wall-clock guard posts
wallTimerCallback(c, q) ==
    /\ IF getStringID(c.n) \in DOMAIN timers
       THEN fireTimer(timers[getStringID(c.n)], q, AfterCallback(c))
       ELSE /\ Post(q, <<>>)
            /\ pc' = AfterCallback(c)
            /\ UNCHANGED <<mockNow, timers, clockTimers, fireOrder>>
    /\ UNCHANGED <<counterID, wallTimers, activities, runningCount, wf, delivered>>

\* the activity goroutines whose mock call waits on the timer with id n
MockOf(n) == {g \in 1 .. Len(act) : act[g].timer = n}

\* the callback registerDelayedCallback posts: env.newTimer(delayDuration, ...)
registerDelayedCallback(c, q) ==
    /\ newTimer(act[c.n].wait)
    /\ pc' = AfterCallback(c)
    /\ Post(q, <<>>)
    /\ UNCHANGED <<mockNow, wallTimers, activities, runningCount, wf, delivered,
                   fireOrder>>

\* the callback of a timer that fired: the workflow's callback(nil, nil), or
\* for a mock call's timer runningCount.Inc() and the send on waitCh, which
\* the main loop completes once the mock's goroutine receives
timerFiredCallback(c, q) ==
    IF MockOf(c.n) = {}
    THEN listenerCallback(c, q)
    ELSE /\ \A g \in MockOf(c.n) : act[g].st = "blocked"
         /\ runningCount' = runningCount + 1
         /\ pc' = AfterCallback(c)
         /\ Post(q, <<>>)
         /\ UNCHANGED <<mockNow, counterID, timers, clockTimers, wallTimers,
                        activities, wf, delivered, fireOrder>>

\* Callbacks of the child Envs; c.n is the child Env the callback belongs to

\* RegisterCancelHandler(handler) on child Env k
RegisterCancelHandler(k) == [child EXCEPT ![k].workflowCancelHandler = TRUE]

\* the callback executeWorkflowInternal posts for a child Env:
\* workflowDef.Execute registers the cancel handler and runs the dispatcher up
\* to the Receive of workflowExecutorWrapper.Execute, which has started the
\* mock goroutine (a child Env does not raise the running count here)
childExecute(c, q) ==
    /\ child' = [RegisterCancelHandler(c.n) EXCEPT ![c.n].st = "mock"]
    /\ pc' = "select"
    /\ cur' = 0
    /\ Post(q, <<>>)
    /\ UNCHANGED <<childWorkflows, runningCount>>

\* the callback of a child's mock goroutine: SendAsync, then the decision task
\* of the child Env, in which the workflow resumes from Receive and lowers
\* the running count
childMockReady(c, q) ==
    /\ IF child[c.n].isTestCompleted
       THEN /\ pc' = "select"
            /\ cur' = 0
            /\ UNCHANGED <<child, runningCount>>
       ELSE /\ runningCount' = runningCount - 1
            /\ child' = [child EXCEPT ![c.n].st = "running"]
            /\ pc' = "dispatch"
            /\ cur' = c.n
    /\ Post(q, <<>>)
    /\ UNCHANGED childWorkflows

\* what RequestCancelWorkflow posts for the cancelled child Env k
cancelListenerPosts(k) ==
    IF onChildWorkflowCanceledListener
    THEN <<Cb("childCanceled", FALSE, child[k].id, k, "")>>
    ELSE <<>>

\* the callback cancelWorkflow posts: RequestCancelWorkflow on the child Env
\* with its own id, then the decision task of the child Env; calling the
\* handler while it is unset is a nil function call
childCancel(c, q) ==
    IF ~child[c.n].workflowCancelHandler
    THEN /\ pc' = "panic"
         /\ cur' = 0
         /\ Post(q, <<>>)
         /\ UNCHANGED <<child, childWorkflows, runningCount>>
    ELSE /\ child' = [child EXCEPT ![c.n].nCancelHandler = @ + 1]
         /\ MainPost(q, cancelListenerPosts(c.n))
         /\ IF MainPostBlocks(q, cancelListenerPosts(c.n))
            THEN pc' = "blockedInPost" /\ cur' = 0
            ELSE IF child[c.n].isTestCompleted
            THEN pc' = "select" /\ cur' = 0
            ELSE pc' = "dispatch" /\ cur' = c.n
         /\ UNCHANGED <<childWorkflows, runningCount>>

\* the callback that invokes onChildWorkflowCanceledListener
childCanceled(c, q) ==
    /\ child' = [child EXCEPT ![c.n].nCanceledListener = @ + 1]
    /\ pc' = "select"
    /\ cur' = 0
    /\ Post(q, <<>>)
    /\ UNCHANGED <<childWorkflows, runningCount>>

\* the callback Complete posts on the parent Env: the handle's callback gets
\* the child's result, then the decision task of the parent
childComplete(c, q) ==
    /\ child' = [child EXCEPT ![c.n].delivered = Append(@, c.res)]
    /\ pc' = startDecisionTask
    /\ cur' = 0
    /\ Post(q, <<>>)
    /\ UNCHANGED <<childWorkflows, runningCount>>

ChildKinds == {"childExecute", "childMockReady", "childCancel", "childCanceled",
               "childComplete"}

childCallback(c, q) ==
    /\ CASE c.kind = "childExecute" -> childExecute(c, q)
         [] c.kind = "childMockReady" -> childMockReady(c, q)
         [] c.kind = "childCancel" -> childCancel(c, q)
         [] c.kind = "childCanceled" -> childCanceled(c, q)
         [] OTHER -> childComplete(c, q)
    /\ UNCHANGED <<mockNow, counterID, timers, clockTimers, wallTimers, activities,
                   wf, delivered, fireOrder>>

\* what a callback leaves of the activity goroutines; pending records that the
\* goroutine's pending result was handled while its handle was registered
afterCallbackAct(c) ==
    CASE (/\ c.kind = "activityResult"
          /\ c.res = "pending"
          /\ c.id \in DOMAIN activities
          /\ activities[c.id].callback = c.n)
             -> [act EXCEPT ![c.n].pending = TRUE]
      [] c.kind = "registerDelayed" -> [act EXCEPT ![c.n].timer = nextID]
      [] c.kind = "timerFired" ->
             [g \in 1 .. Len(act) |->
                 IF g \in MockOf(c.n) THEN [act[g] EXCEPT !.st = "resumed"] ELSE act[g]]
      [] OTHER -> act

\* the callbacks of the root Env
rootCallback(c, q) ==
    /\ CASE c.kind = "execute" -> workflowExecute(c, q)
         [] c.kind = "mockReady" -> mockReady(c, q)
         [] c.kind = "activityResult" -> handleActivityResult(c.id, c.res, c.n, q)
         [] c.kind = "completeActivity" -> completeActivityCallback(c, q)
         [] c.kind = "cancelActivity" -> cancelActivityCallback(c, q)
         [] c.kind = "wallTimerFired" -> wallTimerCallback(c, q)
         [] c.kind = "registerDelayed" -> registerDelayedCallback(c, q)
         [] c.kind = "timerFired" -> timerFiredCallback(c, q)
         [] OTHER -> listenerCallback(c, q)
    /\ UNCHANGED childVars

\* the listeners a timer's callback invokes: onTimerFiredListener (not for the
\* timer of a mock's wait duration), onTimerCancelledListener
afterCallbackEvents(c) ==
    CASE c.kind = "timerFired" /\ MockOf(c.n) = {} -> notify("fired", c.id)
      [] c.kind = "cancelTimer" -> notify("cancelled", c.id)
      [] OTHER -> events

processCallback(c, q) ==
    /\ IF c.kind \in ChildKinds THEN childCallback(c, q) ELSE rootCallback(c, q)
    /\ events' = afterCallbackEvents(c)
    /\ UNCHANGED choices
    /\ lastSeq' = c.seq
    /\ act' = afterCallbackAct(c)
    /\ UNCHANGED <<wallNow, waitStart, isTestCompleted, testError, lastOp,
                   nNoop, hb, nComplete>>

-----------------------------------------------------------------------------
\* The main loop

\* executeWorkflowInternal on the root Env: post the callback that runs the
\* workflow, then enter the main loop
executeWorkflowInternal ==
    /\ pc = "start"
    /\ Post(queue, <<Cb("execute", FALSE, "", 0, "")>>)
    /\ pc' = "select"
    /\ UNCHANGED <<lastSeq, mockNow, wallNow, waitStart, counterID, timers,
                   clockTimers, wallTimers, activities, runningCount,
                   isTestCompleted, testError, wf, act, delivered, fireOrder,
                   lastOp, nNoop, hb, nComplete>>
    /\ UNCHANGED childVars
    /\ UNCHANGED histVars

\* the non-blocking select finds a callback and processes it
startMainLoop_receive ==
    /\ pc = "select"
    /\ queue # <<>>
    /\ processCallback(Head(queue), Tail(queue))

\* the non-blocking select finds nothing: the idle branch
startMainLoop_default ==
    /\ pc = "select"
    /\ SelectDefault(queue)
    /\ pc' = "idle"
    /\ UNCHANGED <<queue, nPosted, lastSeq, mockNow, wallNow, waitStart, counterID,
                   timers, clockTimers, wallTimers, activities, runningCount,
                   isTestCompleted, testError, wf, act, delivered, fireOrder,
                   lastOp, nNoop, hb, nComplete>>
    /\ UNCHANGED childVars
    /\ UNCHANGED histVars

\* Same as NoRunningActivity, but the running count is not looked at.
NoRunningActivityIgnored(n) == TRUE

\* autoFireNextTimer's test "there is no running activity"
NoRunningActivity(n) == n = 0

\* where the idle branch goes when autoFireNextTimer returned false
NotAdvanced ==
    /\ pc' = IF isTestCompleted THEN "done" ELSE "wait"
    /\ waitStart' = wallNow

\* the idle branch: autoFireNextTimer, then return, or block in the second select
autoFireNextTimer ==
    /\ pc = "idle"
    /\ IF DOMAIN timers = {}
       THEN /\ NotAdvanced
            /\ UNCHANGED <<queue, nPosted, mockNow, timers, clockTimers,
                           wallTimers, fireOrder>>
       ELSE IF NoRunningActivity(runningCount)
       THEN /\ wallTimers' = IF nextTimer.wallTimer
                             THEN StopWallTimer(nextTimer.timerID) ELSE wallTimers
            /\ fireTimer(nextTimer, queue, "select")
            /\ UNCHANGED waitStart
       ELSE LET durationToFire == nextTimer.mockTimeToFire - mockNow
                wallTimeToFire == wallNow + durationToFire
                key == getStringID(nextTimer.timerID)
            IN  /\ IF nextTimer.wallTimer /\ nextTimer.wallTimeToFire < wallTimeToFire
                   THEN UNCHANGED <<timers, wallTimers>>
                   ELSE /\ timers' = [timers EXCEPT ![key].wallTimeToFire = wallTimeToFire,
                                                    ![key].wallTimer = TRUE,
                                                    ![key].stoppedGuard =
                                                        IF nextTimer.wallTimer
                                                        THEN nextTimer.wallTimeToFire
                                                        ELSE @]
                        /\ wallTimers' = StopWallTimer(nextTimer.timerID) \cup
                               {[id |-> nextTimer.timerID, at |-> wallTimeToFire]}
                /\ NotAdvanced
                /\ UNCHANGED <<queue, nPosted, mockNow, clockTimers, fireOrder>>
    /\ UNCHANGED <<lastSeq, wallNow, counterID, activities, runningCount,
                   isTestCompleted, testError, wf, act, delivered, lastOp, nNoop,
                   hb, nComplete>>
    /\ UNCHANGED childVars
    /\ UNCHANGED histVars

\* the blocking select receives a callback
startMainLoop_waitReceive ==
    /\ pc = "wait"
    /\ queue # <<>>
    /\ processCallback(Head(queue), Tail(queue))

\* Same as timeAfter, but the channel is ready at once.
timeAfterAtOnce(start, now) == TRUE

\* the channel of time.After(testTimeout), created at start, is ready at now
timeAfter(start, now) == now - start >= TestTimeout

\* the blocking select is woken by time.After(testTimeout), no callback having
\* arrived first: panic("test timeout ...")
startMainLoop_timeout ==
    /\ pc = "wait"
    /\ queue = <<>>
    /\ timeAfter(waitStart, wallNow)
    /\ pc' = "timeout"
    /\ UNCHANGED <<queue, nPosted, lastSeq, mockNow, wallNow, waitStart, counterID,
                   timers, clockTimers, wallTimers, activities, runningCount,
                   isTestCompleted, testError, wf, act, delivered, fireOrder,
                   lastOp, nNoop, hb, nComplete>>
    /\ UNCHANGED childVars
    /\ UNCHANGED histVars

-----------------------------------------------------------------------------
\* The workflow code, inside a decision task (the lock is held)

InDecisionTask == pc = "dispatch" /\ cur = 0 /\ wf = "running" /\ ~isTestCompleted

\* the run of cancel requests after one more request for id that posted n callbacks
CancelRun(op, id, n) ==
    IF lastOp.op = op /\ lastOp.id = id
    THEN [op |-> op, id |-> id, run |-> lastOp.run + 1, posts |-> lastOp.posts + n]
    ELSE [op |-> op, id |-> id, run |-> 1, posts |-> n]

\* newTimer(d, callback, notifyListener) called from the workflow by NewTimer
NewTimer(d, maxID) ==
    /\ InDecisionTask
    /\ counterID < maxID
    /\ newTimer(d)
    /\ lastOp' = NoOp
    /\ UNCHANGED <<pc, queue, nPosted, lastSeq, mockNow, wallNow, waitStart,
                   wallTimers, activities, runningCount, isTestCompleted,
                   testError, wf, act, delivered, fireOrder, nNoop, hb, nComplete>>
    /\ UNCHANGED childVars
    /\ choices' = record("NewTimer", d, "")
    /\ events' = notify("scheduled", getStringID(nextID))

\* env.activities[activityID] = activityHandle
registerActivity(reg, activityID, handle) == (activityID :> handle) @@ reg

\* runningCount.Inc()
IncRunning(n) == n + 1

\* ExecuteActivity(parameters, callback): explicit is the caller's activity id,
\* "" for none; wait is the wait duration of the activity's mock, 0 for none
ExecuteActivity(explicit, wait, maxAct, maxID) ==
    /\ InDecisionTask
    /\ Len(act) < maxAct
    /\ explicit = "" => counterID < maxID
    /\ LET activityID == IF explicit = "" THEN getStringID(nextID) ELSE explicit
           g == Len(act) + 1
       IN  /\ counterID' = IF explicit = "" THEN counterID + 1 ELSE counterID
           /\ activities' = registerActivity(activities, activityID, [callback |-> g])
           /\ runningCount' = IncRunning(runningCount)
           /\ act' = Append(act, [id |-> activityID, st |-> "running",
                                  cancelRequested |-> FALSE, pending |-> FALSE,
                                  wait |-> wait, timer |-> -1, callAt |-> 0,
                                  startAt |-> mockNow])
           /\ delivered' = Append(delivered, <<>>)
    /\ lastOp' = NoOp
    /\ UNCHANGED <<pc, queue, nPosted, lastSeq, mockNow, wallNow, waitStart, timers,
                   clockTimers, wallTimers, isTestCompleted, testError, wf,
                   fireOrder, nNoop, hb, nComplete>>
    /\ UNCHANGED childVars
    /\ UNCHANGED histVars

\* executeActivity(activityFn, args), the one-shot execution of an activity by
\* the test thread, with no workflow: the task has the activity id "0",
\* taskHandler.Execute runs on the calling thread, the running count is not
\* raised and no handle is registered. wait is the wait duration of the
\* activity's mock, 0 for none: without a wait the call returns; with one the
\* thread goes on in runBeforeMockCallReturns (mockRegister, mockDec)
executeActivity(wait, maxCalls) ==
    /\ pc = "start"
    /\ Len(act) < maxCalls
    /\ act' = Append(act, [id |-> "0",
                           st |-> IF wait > 0 THEN "running" ELSE "done",
                           cancelRequested |-> FALSE, pending |-> FALSE,
                           wait |-> wait, timer |-> -1, callAt |-> 0,
                           startAt |-> mockNow])
    /\ delivered' = Append(delivered, <<>>)
    /\ pc' = IF wait > 0 THEN "executeActivity" ELSE pc
    /\ UNCHANGED <<queue, nPosted, lastSeq, mockNow, wallNow, waitStart, counterID,
                   timers, clockTimers, wallTimers, activities, runningCount,
                   isTestCompleted, testError, wf, fireOrder, lastOp, nNoop, hb,
                   nComplete>>
    /\ UNCHANGED childVars
    /\ UNCHANGED histVars

\* the ids a workflow may ask to cancel
MintedIDs == {getStringID(k) : k \in 0 .. (counterID - 1)}

\* Same as removeActivity, but the handle stays in the registry.
removeActivityKept(reg, activityID) == reg

\* delete(env.activities, activityID)
removeActivity(reg, activityID) == Without(reg, activityID)

\* RequestCancelActivity(activityID)
RequestCancelActivity(activityID, maxNoop) ==
    /\ InDecisionTask
    /\ IF activityID \in DOMAIN activities
       THEN LET handle == activities[activityID]
            IN  /\ activities' = removeActivity(activities, activityID)
                /\ MainPost(queue, <<Cb("cancelActivity", TRUE, activityID,
                                        handle.callback, "")>>)
                /\ pc' = AfterPost(queue, <<activityID>>, pc)
                /\ act' = [act EXCEPT ![handle.callback].cancelRequested = TRUE]
                /\ lastOp' = CancelRun("RequestCancelActivity", activityID, 1)
                /\ UNCHANGED nNoop
       ELSE /\ nNoop < maxNoop
            /\ nNoop' = nNoop + 1
            /\ lastOp' = CancelRun("RequestCancelActivity", activityID, 0)
            /\ UNCHANGED <<pc, activities, queue, nPosted, act>>
    /\ UNCHANGED <<lastSeq, mockNow, wallNow, waitStart, counterID, timers,
                   clockTimers, wallTimers, runningCount, isTestCompleted,
                   testError, wf, delivered, fireOrder, hb, nComplete>>
    /\ UNCHANGED childVars
    /\ UNCHANGED histVars

\* Same as removeTimer, but the handle stays in the registry.
removeTimerKept(reg, timerID) == reg

\* delete(env.timers, timerID)
removeTimer(reg, timerID) == Without(reg, timerID)

\* RequestCancelTimer(timerID)
RequestCancelTimer(timerID, maxNoop) ==
    /\ InDecisionTask
    /\ IF timerID \in DOMAIN timers
       THEN LET timerHandle == timers[timerID]
            IN  /\ timers' = removeTimer(timers, timerID)
                /\ clockTimers' = SelectSeq(clockTimers,
                                            LAMBDA t : t.id # timerHandle.timerID)
                /\ MainPost(queue, <<Cb("cancelTimer", TRUE, timerID,
                                        timerHandle.timerID, "")>>)
                /\ pc' = AfterPost(queue, <<timerID>>, pc)
                /\ lastOp' = CancelRun("RequestCancelTimer", timerID, 1)
                /\ UNCHANGED nNoop
       ELSE /\ nNoop < maxNoop
            /\ nNoop' = nNoop + 1
            /\ lastOp' = CancelRun("RequestCancelTimer", timerID, 0)
            /\ UNCHANGED <<pc, timers, clockTimers, queue, nPosted>>
    /\ UNCHANGED <<lastSeq, mockNow, wallNow, waitStart, counterID, wallTimers,
                   activities, runningCount, isTestCompleted, testError, wf, act,
                   delivered, fireOrder, hb, nComplete>>
    /\ UNCHANGED childVars
    /\ choices' = record("RequestCancelTimer", 0, timerID)
    /\ UNCHANGED events

\* Complete(result, err) on the root Env: the workflow function has returned
Complete(err) ==
    /\ InDecisionTask
    /\ isTestCompleted' = TRUE
    /\ testError' = err
    /\ pc' = "select"
    /\ lastOp' = NoOp
    /\ UNCHANGED <<queue, nPosted, lastSeq, mockNow, wallNow, waitStart, counterID,
                   timers, clockTimers, wallTimers, activities, runningCount, wf,
                   act, delivered, fireOrder, nNoop, hb, nComplete>>
    /\ cur' = 0
    /\ UNCHANGED <<childWorkflows, child>>
    /\ choices' = record("Complete", 0, err)
    /\ UNCHANGED events

\* the dispatcher has run the workflow until all its coroutines block:
\* processCallback returns and releases the lock
AllBlocked ==
    /\ pc = "dispatch"
    /\ pc' = "select"
    /\ lastOp' = NoOp
    /\ UNCHANGED <<queue, nPosted, lastSeq, mockNow, wallNow, waitStart, counterID,
                   timers, clockTimers, wallTimers, activities, runningCount,
                   isTestCompleted, testError, wf, act, delivered, fireOrder,
                   nNoop, hb, nComplete>>
    /\ cur' = 0
    /\ UNCHANGED <<childWorkflows, child>>
    /\ choices' = record("AllBlocked", 0, "")
    /\ UNCHANGED events

-----------------------------------------------------------------------------
\* Goroutines beside the main loop

Running == pc \notin {"start", "done", "timeout", "panic"}

\* the root workflow's mock goroutine: getMockReturn, then post mockReady
mockGoroutine ==
    /\ Running
    /\ wf = "mock"
    /\ wf' = "mockPosted"
    /\ Post(queue, <<Cb("mockReady", TRUE, "", 0, "")>>)
    /\ UNCHANGED <<pc, lastSeq, mockNow, wallNow, waitStart, counterID, timers,
                   clockTimers, wallTimers, activities, runningCount,
                   isTestCompleted, testError, act, delivered, fireOrder, lastOp,
                   nNoop, hb, nComplete>>
    /\ UNCHANGED childVars
    /\ UNCHANGED histVars

\* runBeforeMockCallReturns with a wait duration: registerDelayedCallback
\* posts the callback that will arm the timer
mockRegister(g) ==
    /\ Running
    /\ act[g].st = "running"
    /\ act[g].wait > 0
    /\ Post(queue, <<Cb("registerDelayed", FALSE, act[g].id, g, "")>>)
    /\ act' = [act EXCEPT ![g].st = "registered", ![g].callAt = mockNow]
    /\ UNCHANGED <<pc, lastSeq, mockNow, wallNow, waitStart, counterID, timers,
                   clockTimers, wallTimers, activities, runningCount,
                   isTestCompleted, testError, wf, delivered, fireOrder, lastOp,
                   nNoop, hb, nComplete>>
    /\ UNCHANGED childVars
    /\ UNCHANGED histVars

\* runBeforeMockCallReturns: runningCount.Dec(), then block on waitCh
mockDec(g) ==
    /\ Running
    /\ act[g].st = "registered"
    /\ runningCount' = runningCount - 1
    /\ act' = [act EXCEPT ![g].st = "blocked"]
    /\ UNCHANGED <<pc, queue, nPosted, lastSeq, mockNow, wallNow, waitStart,
                   counterID, timers, clockTimers, wallTimers, activities,
                   isTestCompleted, testError, wf, delivered, fireOrder, lastOp,
                   nNoop, hb, nComplete>>
    /\ UNCHANGED childVars
    /\ UNCHANGED histVars

\* Same as goroutineActivities, but the goroutine removes the handle itself.
goroutineActivitiesDirect(g, result) == Without(activities, act[g].id)

\* the registry after the activity goroutine has got its result: the goroutine
\* leaves it alone, handleActivityResult runs in the callback it posts
goroutineActivities(g, result) == activities

\* an activity goroutine: taskHandler.Execute has returned result, post it
activityPost(g, result) ==
    /\ Running
    /\ \/ act[g].st = "running" /\ act[g].wait = 0
       \/ act[g].st = "resumed"
    /\ Post(queue, <<Cb("activityResult", FALSE, act[g].id, g, result)>>)
    /\ act' = [act EXCEPT ![g].st = "posted"]
    /\ activities' = goroutineActivities(g, result)
    /\ UNCHANGED <<pc, lastSeq, mockNow, wallNow, waitStart, counterID, timers,
                   clockTimers, wallTimers, runningCount,
                   isTestCompleted, testError, wf, delivered, fireOrder, lastOp,
                   nNoop, hb, nComplete>>
    /\ UNCHANGED childVars
    /\ UNCHANGED histVars

\* an activity goroutine: runningCount.Dec() after the post
activityDec(g) ==
    /\ Running
    /\ act[g].st = "posted"
    /\ runningCount' = runningCount - 1
    /\ act' = [act EXCEPT ![g].st = "done"]
    /\ UNCHANGED <<pc, queue, nPosted, lastSeq, mockNow, wallNow, waitStart,
                   counterID, timers, clockTimers, wallTimers, activities,
                   isTestCompleted, testError, wf, delivered, fireOrder, lastOp,
                   nNoop, hb, nComplete>>
    /\ UNCHANGED childVars
    /\ UNCHANGED histVars

\* what mockHeartbeatFn returns for a task token
mockHeartbeatFn(activityID) ==
    IF activityID \in DOMAIN activities THEN "nil" ELSE "EntityNotExistsError"

\* what the mocked service's RecordActivityTaskHeartbeat returns to its caller:
\* the Do() action runs mockHeartbeatFn and drops its result, the Return() is fixed
RecordActivityTaskHeartbeat(activityID) == "nil"

\* a running activity records a heartbeat (mockHeartbeatFn takes the lock)
heartbeat(g, maxHeartbeat) ==
    /\ Running
    /\ pc # "dispatch"
    /\ act[g].st = "running"
    /\ Len(hb) < maxHeartbeat
    /\ LET activityID == act[g].id
       IN  /\ hb' = Append(hb, [id |-> activityID,
                                found |-> activityID \in DOMAIN activities,
                                fnErr |-> mockHeartbeatFn(activityID),
                                err |-> RecordActivityTaskHeartbeat(activityID)])
           /\ IF activityID \in DOMAIN activities
              THEN Post(queue, <<Cb("heartbeat", FALSE, activityID, g, "")>>)
              ELSE UNCHANGED <<queue, nPosted>>
    /\ UNCHANGED <<pc, lastSeq, mockNow, wallNow, waitStart, counterID, timers,
                   clockTimers, wallTimers, activities, runningCount,
                   isTestCompleted, testError, wf, act, delivered, fireOrder,
                   lastOp, nNoop, nComplete>>
    /\ UNCHANGED childVars
    /\ UNCHANGED histVars

\* the test author calls CompleteActivity(taskToken, result, err)
CompleteActivity(taskToken, result, maxComplete) ==
    /\ Running
    /\ nComplete < maxComplete
    /\ nComplete' = nComplete + 1
    /\ Post(queue, <<Cb("completeActivity", FALSE, taskToken, 0, result)>>)
    /\ UNCHANGED <<pc, lastSeq, mockNow, wallNow, waitStart, counterID, timers,
                   clockTimers, wallTimers, activities, runningCount,
                   isTestCompleted, testError, wf, act, delivered, fireOrder,
                   lastOp, nNoop, hb>>
    /\ UNCHANGED childVars
    /\ UNCHANGED histVars

\* a wall-clock guard fires: its AfterFunc posts the fire-the-timer callback
wallTimerFire(w) ==
    /\ Running
    /\ wallNow >= w.at
    /\ wallTimers' = wallTimers \ {w}
    /\ Post(queue, <<Cb("wallTimerFired", TRUE, getStringID(w.id), w.id, "")>>)
    /\ UNCHANGED <<pc, lastSeq, mockNow, wallNow, waitStart, counterID, timers,
                   clockTimers, activities, runningCount, isTestCompleted,
                   testError, wf, act, delivered, fireOrder, lastOp, nNoop, hb,
                   nComplete>>
    /\ UNCHANGED childVars
    /\ UNCHANGED histVars

\* one second of wall time passes; the steps of the program take no time, so
\* time is seen to pass only while the main loop is blocked with nothing to receive
Tick(maxWall) ==
    /\ pc = "wait"
    /\ queue = <<>>
    /\ wallNow < maxWall
    /\ wallNow' = wallNow + 1
    /\ UNCHANGED <<pc, queue, nPosted, lastSeq, mockNow, waitStart, counterID,
                   timers, clockTimers, wallTimers, activities, runningCount,
                   isTestCompleted, testError, wf, act, delivered, fireOrder,
                   lastOp, nNoop, hb, nComplete>>
    /\ UNCHANGED childVars
    /\ UNCHANGED histVars

\* no goroutine is in the middle of the test environment's own code: the mock
\* goroutine has posted, and every activity goroutine runs the activity
\* function, is blocked on waitCh or has ended
Settled ==
    /\ wf # "mock"
    /\ \A g \in 1 .. Len(act) :
           /\ act[g].st \notin {"registered", "posted", "resumed"}
           /\ act[g].st = "running" => act[g].wait = 0

\* one second of wall time passes while no goroutine is in the middle of the
\* test environment's own code, which takes far less than a second
TickSettled(maxWall) ==
    /\ Settled
    /\ Tick(maxWall)

-----------------------------------------------------------------------------
\* Child workflows

\* the workflow id newTestWorkflowEnvironmentForChild gives the child
childWorkflowID(explicit) ==
    IF explicit = "" THEN defaultTestRunID \o "_" \o getStringID(nextID) ELSE explicit

\* the child Env newTestWorkflowEnvironmentImpl builds
newChildEnv(id) ==
    [id |-> id, st |-> "starting", isTestCompleted |-> FALSE, testError |-> "nil",
     doneChannel |-> "open", workflowCancelHandler |-> FALSE,
     nCancelHandler |-> 0, nCanceledListener |-> 0, delivered |-> <<>>,
     cancelRequested |-> FALSE, completedWith |-> "none"]

\* ExecuteChildWorkflow(options, callback, startedHandler) by the root workflow
ExecuteChildWorkflow(explicit, maxChild, maxID) ==
    /\ InDecisionTask
    /\ Len(child) < maxChild
    /\ explicit = "" => counterID < maxID
    /\ LET id == childWorkflowID(explicit)
           k == Len(child) + 1
       IN  /\ child' = Append(child, newChildEnv(id))
           /\ childWorkflows' =
                  [x \in DOMAIN childWorkflows \cup {id} |->
                      IF x = id THEN [env |-> k, callback |-> k] ELSE childWorkflows[x]]
    /\ counterID' = IF explicit = "" THEN counterID + 1 ELSE counterID
    /\ runningCount' = runningCount + 1
    /\ lastOp' = NoOp
    /\ UNCHANGED <<pc, cur, queue, nPosted, lastSeq, mockNow, wallNow, waitStart,
                   timers, clockTimers, wallTimers, activities, isTestCompleted,
                   testError, wf, act, delivered, fireOrder, nNoop, hb, nComplete>>
    /\ UNCHANGED histVars

\* the workflow ids the root workflow knows
ChildIDs == {child[k].id : k \in 1 .. Len(child)}

removeChild(reg, id) == Without(reg, id)

\* RequestCancelWorkflow(domain, workflowID, runID) by the root workflow, for
\* the id of a child: cancelWorkflow on the child Env posts the callback
RequestCancelWorkflow(workflowID, maxNoop) ==
    /\ InDecisionTask
    /\ IF workflowID \in DOMAIN childWorkflows
       THEN /\ childWorkflows' = removeChild(childWorkflows, workflowID)
            /\ MainPost(queue, <<Cb("childCancel", TRUE, workflowID,
                                    childWorkflows[workflowID].env, "")>>)
            /\ pc' = AfterPost(queue, <<workflowID>>, pc)
            /\ child' = [child EXCEPT
                   ![childWorkflows[workflowID].env].cancelRequested = TRUE]
            /\ UNCHANGED nNoop
       ELSE /\ nNoop < maxNoop
            /\ nNoop' = nNoop + 1
            /\ UNCHANGED <<pc, childWorkflows, child, queue, nPosted>>
    /\ lastOp' = NoOp
    /\ UNCHANGED <<cur, lastSeq, mockNow, wallNow, waitStart, counterID,
                   timers, clockTimers, wallTimers, activities, runningCount,
                   isTestCompleted, testError, wf, act, delivered, fireOrder,
                   hb, nComplete>>
    /\ UNCHANGED histVars

\* Same as completionPosts, but the completion is always dropped.
completionPostsDropped(k, err) == <<>>

\* what Complete posts on the parent Env for child Env k
completionPosts(k, err) ==
    IF child[k].id \in DOMAIN childWorkflows
    THEN <<Cb("childComplete", TRUE, child[k].id,
              childWorkflows[child[k].id].callback, err)>>
    ELSE <<>>

\* Complete(result, err) on child Env k: its workflow function has returned
ChildComplete(k, err) ==
    /\ pc = "dispatch"
    /\ cur = k
    /\ child[k].st = "running"
    /\ ~child[k].isTestCompleted
    /\ child' = [child EXCEPT
           ![k].nCancelHandler =
               IF err = "CanceledError" /\ child[k].workflowCancelHandler
               THEN @ + 1 ELSE @,
           ![k].isTestCompleted = TRUE,
           ![k].testError = err,
           ![k].completedWith = err,
           ![k].doneChannel = "closed",
           ![k].st = "returned"]
    /\ childWorkflows' = IF child[k].id \in DOMAIN childWorkflows
                         THEN removeChild(childWorkflows, child[k].id)
                         ELSE childWorkflows
    /\ MainPost(queue, completionPosts(k, err))
    /\ pc' = AfterPost(queue, completionPosts(k, err), "select")
    /\ cur' = 0
    /\ lastOp' = NoOp
    /\ UNCHANGED <<lastSeq, mockNow, wallNow, waitStart, counterID, timers,
                   clockTimers, wallTimers, activities, runningCount,
                   isTestCompleted, testError, wf, act, delivered, fireOrder,
                   nNoop, hb, nComplete>>
    /\ UNCHANGED histVars

\* the goroutine ExecuteChildWorkflow starts: executeWorkflowInternal on the
\* child Env posts the callback that runs the workflow, then waits for done
childExecuteWorkflowInternal(k) ==
    /\ Running
    /\ child[k].st = "starting"
    /\ child' = [child EXCEPT ![k].st = "executePosted"]
    /\ Post(queue, <<Cb("childExecute", FALSE, child[k].id, k, "")>>)
    /\ UNCHANGED <<pc, cur, childWorkflows, lastSeq, mockNow, wallNow, waitStart,
                   counterID, timers, clockTimers, wallTimers, activities,
                   runningCount, isTestCompleted, testError, wf, act, delivered,
                   fireOrder, lastOp, nNoop, hb, nComplete>>
    /\ UNCHANGED histVars

\* the mock goroutine of child Env k: getMockReturn, then post the callback
childMockGoroutine(k) ==
    /\ Running
    /\ child[k].st = "mock"
    /\ child' = [child EXCEPT ![k].st = "mockPosted"]
    /\ Post(queue, <<Cb("childMockReady", TRUE, child[k].id, k, "")>>)
    /\ UNCHANGED <<pc, cur, childWorkflows, lastSeq, mockNow, wallNow, waitStart,
                   counterID, timers, clockTimers, wallTimers, activities,
                   runningCount, isTestCompleted, testError, wf, act, delivered,
                   fireOrder, lastOp, nNoop, hb, nComplete>>
    /\ UNCHANGED histVars

\* Same as alreadyCompleted, but Complete never returns early.
alreadyCompletedNever(done) == FALSE

\* Complete: `if env.isTestCompleted`, the early return
alreadyCompleted(done) == done

\* Complete(result, err) called once more on the root Env after it has
\* completed, by the main-loop thread between two callbacks
Complete_completed(err, maxNoop) ==
    /\ pc = "select"
    /\ isTestCompleted
    /\ nNoop < maxNoop
    /\ nNoop' = nNoop + 1
    /\ lastOp' = CancelRun("Complete", "", 0)
    /\ IF alreadyCompleted(isTestCompleted)
       THEN UNCHANGED <<isTestCompleted, testError>>
       ELSE /\ isTestCompleted' = TRUE
            /\ testError' = err
    /\ UNCHANGED <<pc, queue, nPosted, lastSeq, mockNow, wallNow, waitStart,
                   counterID, timers, clockTimers, wallTimers, activities,
                   runningCount, wf, act, delivered, fireOrder, hb, nComplete>>
    /\ UNCHANGED childVars
    /\ UNCHANGED histVars

\* Complete(result, err) called once more on child Env k after it has
\* completed; without the early return the cancel handler is called, the
\* flag and the error are written and close(env.doneChannel) on the closed
\* channel panics
ChildComplete_completed(k, err, maxNoop) ==
    /\ pc = "select"
    /\ child[k].isTestCompleted
    /\ nNoop < maxNoop
    /\ nNoop' = nNoop + 1
    /\ lastOp' = CancelRun("Complete", child[k].id, 0)
    /\ IF alreadyCompleted(child[k].isTestCompleted)
       THEN UNCHANGED <<pc, child>>
       ELSE /\ child' = [child EXCEPT
                   ![k].nCancelHandler =
                       IF err = "CanceledError" /\ child[k].workflowCancelHandler
                       THEN @ + 1 ELSE @,
                   ![k].testError = err]
            /\ pc' = "panic"
    /\ UNCHANGED <<queue, nPosted, childWorkflows, cur>>
    /\ UNCHANGED <<lastSeq, mockNow, wallNow, waitStart, counterID, timers,
                   clockTimers, wallTimers, activities, runningCount,
                   isTestCompleted, testError, wf, act, delivered, fireOrder,
                   hb, nComplete>>
    /\ UNCHANGED histVars

-----------------------------------------------------------------------------
\* The specification

\* the state after newTestWorkflowEnvironmentImpl
InitEnv ==
    /\ pc = "start"
    /\ queue = <<>>
    /\ nPosted = 0
    /\ lastSeq = 0
    /\ mockNow = 0
    /\ wallNow = 0
    /\ waitStart = 0
    /\ counterID = 0
    /\ timers = <<>>
    /\ clockTimers = <<>>
    /\ wallTimers = {}
    /\ activities = <<>>
    /\ runningCount = 0
    /\ isTestCompleted = FALSE
    /\ testError = "nil"
    /\ wf = "notStarted"
    /\ act = <<>>
    /\ delivered = <<>>
    /\ fireOrder = <<>>
    /\ lastOp = NoOp
    /\ nNoop = 0
    /\ hb = <<>>
    /\ nComplete = 0
    /\ childWorkflows = <<>>
    /\ child = <<>>
    /\ cur = 0
    /\ events = <<>>

Init == InitEnv /\ choices = <<OffMark>>

\* the same, in a run whose calls and listener events are recorded
InitRecorded == InitEnv /\ choices = <<>>

\* the task tokens the test author knows
TaskTokens == {act[g].id : g \in 1 .. Len(act)}

\* the main loop, from executeWorkflowInternal to its return
MainLoop ==
    \/ executeWorkflowInternal
    \/ startMainLoop_receive
    \/ startMainLoop_default
    \/ autoFireNextTimer
    \/ startMainLoop_waitReceive
    \/ AllBlocked
    \/ mockGoroutine

Next ==
    \/ MainLoop
    \/ \E d \in Durations(MaxDur) : NewTimer(d, MaxID)
    \/ \E explicit \in {""} \cup ExplicitIDs : ExecuteActivity(explicit, 0, MaxAct, MaxID)
    \/ \E id \in MintedIDs \cup ExplicitIDs : RequestCancelActivity(id, MaxNoop)
    \/ \E id \in MintedIDs : RequestCancelTimer(id, MaxNoop)
    \/ \E err \in {"nil", "CanceledError"} : Complete(err)
    \/ \E g \in 1 .. Len(act) : \E result \in ActResults : activityPost(g, result)
    \/ \E g \in 1 .. Len(act) : activityDec(g)
    \/ \E g \in 1 .. Len(act) : heartbeat(g, MaxHeartbeat)
    \/ \E id \in TaskTokens : \E result \in ActResults :
           CompleteActivity(id, result, MaxComplete)
    \/ \E w \in wallTimers : wallTimerFire(w)
    \/ Tick(MaxWall)
    \/ startMainLoop_timeout

Spec == Init /\ [][Next]_vars

\* a workflow of timers, with one activity started under an explicit id
NextTimers ==
    \/ MainLoop
    \/ \E d \in Durations(TimersMaxDur) : NewTimer(d, TimersMaxID)
    \/ ExecuteActivity("a", 0, 1, TimersMaxID)
    \/ \E id \in MintedIDs : RequestCancelTimer(id, 0)
    \/ \E err \in {"nil", "CanceledError"} : Complete(err)
    \/ \E g \in 1 .. Len(act) : \E result \in ActResults : activityPost(g, result)
    \/ \E g \in 1 .. Len(act) : activityDec(g)
    \/ \E w \in wallTimers : wallTimerFire(w)
    \/ Tick(TimersMaxWall)
    \/ startMainLoop_timeout

SpecTimers == Init /\ [][NextTimers]_vars

\* timers created while activities come and go: the wall-clock guards
NextGuards ==
    \/ MainLoop
    \/ \E d \in Durations(GuardsMaxDur) : NewTimer(d, GuardsMaxID)
    \/ ExecuteActivity("a", 0, GuardsMaxAct, GuardsMaxID)
    \/ \E g \in 1 .. Len(act) : \E result \in ActResults : activityPost(g, result)
    \/ \E g \in 1 .. Len(act) : activityDec(g)
    \/ \E w \in wallTimers : wallTimerFire(w)
    \/ Tick(GuardsMaxWall)

SpecGuards == Init /\ [][NextGuards]_vars

\* the timers of SpecTimers, in a run whose calls and listener events are
\* recorded
SpecTimersRecorded == InitRecorded /\ [][NextTimers]_vars

\* a workflow of activities
NextActivities ==
    \/ MainLoop
    \/ \E explicit \in {""} \cup ExplicitIDs :
           ExecuteActivity(explicit, 0, ActivitiesMaxAct, ActivitiesMaxID)
    \/ \E id \in MintedIDs \cup ExplicitIDs : RequestCancelActivity(id, 0)
    \/ \E err \in {"nil", "CanceledError"} : Complete(err)
    \/ \E g \in 1 .. Len(act) : \E result \in ActResults : activityPost(g, result)
    \/ \E g \in 1 .. Len(act) : activityDec(g)
    \/ \E id \in TaskTokens : \E result \in ActResults :
           CompleteActivity(id, result, ActivitiesMaxComplete)

SpecActivities == Init /\ [][NextActivities]_vars

\* a workflow of at most two activities mocked with wait durations, and a
\* timer; wall time passes only between the steps of the goroutines
NextMock ==
    \/ MainLoop
    \/ \E wait \in {MockWaitShort, MockWaitLong} : ExecuteActivity("", wait, MockMaxAct, MockMaxID)
    \/ NewTimer(MockTimer, MockMaxID)
    \/ \E err \in {"nil", "CanceledError"} : Complete(err)
    \/ \E g \in 1 .. Len(act) : mockRegister(g)
    \/ \E g \in 1 .. Len(act) : mockDec(g)
    \/ \E g \in 1 .. Len(act) : activityPost(g, "completed")
    \/ \E g \in 1 .. Len(act) : activityDec(g)
    \/ \E w \in wallTimers : wallTimerFire(w)
    \/ TickSettled(MockMaxWall)
    \/ startMainLoop_timeout

SpecMock == Init /\ [][NextMock]_vars

\* the same test, whose thread first executes an activity by itself
NextOneShot ==
    \/ \E wait \in {0, MockWaitShort} : executeActivity(wait, OneShotMax)
    \/ NextMock

SpecOneShot == Init /\ [][NextOneShot]_vars

\* a workflow of at most two child workflows
NextChildren ==
    \/ MainLoop
    \/ \E explicit \in {""} \cup ExplicitChildIDs :
           ExecuteChildWorkflow(explicit, ChildrenMax, ChildrenMaxID)
    \/ \E id \in ChildIDs : RequestCancelWorkflow(id, ChildrenMaxNoop)
    \/ \E err \in {"nil", "CanceledError"} : Complete(err)
    \/ \E k \in 1 .. Len(child) : \E err \in {"nil", "CanceledError"} : ChildComplete(k, err)
    \/ \E k \in 1 .. Len(child) : childExecuteWorkflowInternal(k)
    \/ \E k \in 1 .. Len(child) : childMockGoroutine(k)

SpecChildren == Init /\ [][NextChildren]_vars

\* the same workflows, with further calls of Complete on completed Envs
NextComplete ==
    \/ NextChildren
    \/ \E err \in {"nil", "CanceledError"} : Complete_completed(err, CompleteMaxNoop)
    \/ \E k \in 1 .. Len(child) : \E err \in {"nil", "CanceledError"} :
           ChildComplete_completed(k, err, CompleteMaxNoop)

SpecComplete == Init /\ [][NextComplete]_vars

\* a workflow that uses only timers, its calls and listener events recorded
NextVirtual ==
    \/ MainLoop
    \/ \E d \in Durations(VirtualMaxDur) : NewTimer(d, VirtualMaxID)
    \/ \E id \in MintedIDs : RequestCancelTimer(id, VirtualMaxNoop)
    \/ \E err \in {"nil", "CanceledError"} : Complete(err)
    \/ TickSettled(VirtualMaxWall)
    \/ startMainLoop_timeout

SpecVirtual == InitRecorded /\ [][NextVirtual]_vars

\* the workflow creates one timer more than the channel holds
ScheduleAll ==
    /\ queue = <<>>
    /\ NewTimer(QueueTimer, QueueCap + 1)

\* and then, in the same decision task, cancels them in the order of creation
CancelAll ==
    /\ counterID = QueueCap + 1
    /\ RequestCancelTimer(getStringID(QueueCap + 1 - Cardinality(DOMAIN timers)), 0)

\* a workflow that cancels more timers in one decision task than the channel holds
NextQueue ==
    \/ executeWorkflowInternal
    \/ startMainLoop_receive
    \/ startMainLoop_default
    \/ autoFireNextTimer
    \/ startMainLoop_waitReceive
    \/ mockGoroutine
    \/ ScheduleAll
    \/ CancelAll

SpecQueue == Init /\ [][NextQueue]_vars

-----------------------------------------------------------------------------
\* Properties

\* C1: the main loop receives the callbacks in the order they were sent: the
\* callbacks waiting in the channel are, in order, the ones sent right after
\* the callback received last.
C1_CallbacksInEnqueueOrder ==
    /\ lastSeq + Len(queue) = nPosted
    /\ \A i \in 1 .. Len(queue) : queue[i].seq = lastSeq + i

\* callbacks of an activity goroutine, of the test author and of the main loop
\* itself wait together, after others have been received
C1_Witness ==
    /\ lastSeq >= 2
    /\ \E i, j, k \in 1 .. Len(queue) :
           /\ queue[i].kind = "activityResult"
           /\ queue[j].kind = "completeActivity"
           /\ queue[k].kind \in {"timerFired", "cancelActivity", "cancelTimer"}

\* C2: when the non-blocking select starts with a callback in the channel, the
\* main loop leaves the select by processing that callback, never by the idle
\* branch; the idle branch, where autoFireNextTimer arms guards and advances
\* the clock, is entered only from a select that found the channel empty.
C2_CallbackBeforeAutoFire ==
    [][ /\ (pc = "select" /\ queue # <<>>) =>
               /\ pc' # "idle"
               /\ pc' # pc => lastSeq' = Head(queue).seq
        /\ (pc' = "idle" /\ pc # "idle") => (pc = "select" /\ queue = <<>>)
        /\ (wallTimers' \ wallTimers # {}) => pc = "idle"
      ]_vars

\* the select starts with a callback waiting and a timer that could be fired
C2_Witness ==
    /\ pc = "select"
    /\ queue # <<>>
    /\ DOMAIN timers # {}
    /\ runningCount = 0

\* every goroutine started beside the main loop has finished
Quiet == wf = "running" /\ \A g \in 1 .. Len(act) : act[g].st = "done"

\* C3: the main loop never blocks in its second select, waiting on wall time,
\* while a timer is pending, the channel is empty and every goroutine has
\* posted its callback and lowered the running count.
C3_IdleLoopFiresTimer ==
    ~(pc = "wait" /\ queue = <<>> /\ DOMAIN timers # {} /\ Quiet)

ActivityRunning == \E g \in 1 .. Len(act) : act[g].st = "running"

\* C4: while an activity has not yet posted its result the running count is
\* positive, the idle branch leaves the mock clock, its timers and the timer
\* registry's ids as they are and does not return to the select, and the mock
\* clock moves only in a wall-clock guard's callback.
C4_NoAutoFireWhileActivityRuns ==
    [][ ActivityRunning =>
            /\ runningCount > 0
            /\ pc = "idle" =>
                   /\ mockNow' = mockNow
                   /\ clockTimers' = clockTimers
                   /\ DOMAIN timers' = DOMAIN timers
                   /\ pc' \in {"idle", "wait", "done"}
            /\ mockNow' # mockNow =>
                   /\ pc \in {"select", "wait"}
                   /\ queue # <<>>
                   /\ Head(queue).kind = "wallTimerFired"
      ]_vars

\* the idle branch has armed a guard and blocked while an activity runs
C4_Witness ==
    /\ ActivityRunning
    /\ pc = "wait"
    /\ DOMAIN timers # {}
    /\ wallTimers # {}

\* C5: every step that advances the mock clock is taken with no unprocessed
\* callback in the channel: by the idle branch with the channel empty, or by a
\* guard's callback that was the only one waiting.
C5_ClockAdvancesOnlyWhenNoWork ==
    [][ mockNow' # mockNow =>
            \/ pc = "idle" /\ queue = <<>>
            \/ /\ pc \in {"select", "wait"}
               /\ queue # <<>>
               /\ Head(queue).kind = "wallTimerFired"
               /\ Tail(queue) = <<>>
      ]_vars

InRegistry(g) == \E id \in DOMAIN activities : activities[id].callback = g

QueuedCancels(g) ==
    Cardinality({i \in 1 .. Len(queue) :
                     queue[i].kind = "cancelActivity" /\ queue[i].n = g})

\* C7: the callback of an activity whose handle is in the registry has not
\* been invoked, and once the handle is out of the registry exactly one
\* outcome has been delivered to the callback or is queued for it.
C7_OutcomeExactlyOnce ==
    \A g \in 1 .. Len(act) :
        IF InRegistry(g)
        THEN delivered[g] = <<>>
        ELSE Len(delivered[g]) + QueuedCancels(g) = 1

\* C8: a cancel request that repeats the one just made, for the same activity
\* or timer, posts nothing and changes no state, so that the two requests
\* together post at most one cancelled-error callback.
C8_CancelIdempotent ==
    [][ /\ (/\ lastOp.run >= 1
            /\ lastOp'.run = lastOp.run + 1
            /\ lastOp'.op = lastOp.op
            /\ lastOp'.id = lastOp.id)
               => /\ UNCHANGED progVars
                  /\ nPosted' = nPosted
                  /\ lastOp'.posts = lastOp.posts
        /\ lastOp'.posts <= 1
      ]_vars

\* the same activity was cancelled twice in a row, the first request posting
\* the cancelled-error callback
C8_Witness ==
    /\ lastOp.op = "RequestCancelActivity"
    /\ lastOp.run = 2
    /\ lastOp.posts = 1

\* C9: once RequestCancelActivity has removed an activity's handle, the
\* activity's callback gets the cancelled-error and nothing else, and the
\* result its goroutine posts later is delivered to no callback.
C9_CancelledResultDropped ==
    \A g \in 1 .. Len(act) :
        act[g].cancelRequested =>
            /\ ~InRegistry(g)
            /\ \A i \in 1 .. Len(delivered[g]) :
                   delivered[g][i] = [res |-> "cancelRequested", from |-> g]
            /\ Len(delivered[g]) <= 1
            /\ \A h \in 1 .. Len(act) : \A i \in 1 .. Len(delivered[h]) :
                   delivered[h][i].from = g => delivered[h][i].res = "cancelRequested"

\* C10: a heartbeat for an activity that is not in the registry returns the
\* entity-not-exists error to its caller, one for a registered activity returns
\* no error.
C10_HeartbeatNotFound ==
    \A i \in 1 .. Len(hb) :
        hb[i].err = IF hb[i].found THEN "nil" ELSE "EntityNotExistsError"

MockReturned == {g \in 1 .. Len(act) :
                    act[g].wait > 0 /\ act[g].st \in {"resumed", "posted", "done"}}

\* C12: once a mock call with a wait duration has returned, the mock clock is
\* at least the wait duration past the time at which the call started to wait,
\* and a result of the mocked activity is queued or delivered only then.
C12_MockReturnsAfterWait ==
    /\ \A g \in MockReturned : mockNow >= act[g].callAt + act[g].wait
    /\ \A g \in 1 .. Len(act) :
           (/\ act[g].wait > 0
            /\ \/ \E i \in 1 .. Len(queue) :
                      queue[i].kind = "activityResult" /\ queue[i].n = g
               \/ \E h \in 1 .. Len(act) : \E i \in 1 .. Len(delivered[h]) :
                      delivered[h][i].from = g /\ delivered[h][i].res = "completed")
               => g \in MockReturned

\* a mock call that started to wait after the clock had moved has returned
C12_Witness ==
    \E g \in MockReturned : act[g].callAt > 0 /\ delivered[g] # <<>>

\* the workflow has called one activity, mocked with a wait duration, and
\* nothing else, and the activity's result has not been delivered yet
OnlyMockedActivityOutstanding ==
    /\ Len(act) = 1
    /\ act[1].wait > 0
    /\ counterID = 1 + (IF act[1].timer >= 0 THEN 1 ELSE 0)
    /\ InRegistry(1)
    /\ ~isTestCompleted

\* C13: while a workflow waits for its single activity, whose mock has
\* registered its delayed callback, lowered the running count and blocked,
\* the test timeout is not hit.
C13_MockedActivityNeverTimesOut ==
    (OnlyMockedActivityOutstanding /\ act[1].st = "blocked") => pc # "timeout"

\* the workflow started two activities mocked with the short and the long wait
\* duration and the timer with id n, all at mock time 0
TwoActivitiesAndTimer(n) ==
    /\ Len(act) = 2
    /\ {act[1].wait, act[2].wait} = {MockWaitShort, MockWaitLong}
    /\ act[1].startAt = 0
    /\ act[2].startAt = 0
    /\ \E i \in 1 .. Len(fireOrder) :
           fireOrder[i].id = n /\ fireOrder[i].next = MockTimer

\* C14: when the timer's callback runs, the activity with the short wait has
\* had its result delivered and the activity with the long wait, and only it,
\* is still in the registry.
C14_EventsInMockTimeOrder ==
    [][ (/\ lastSeq' # lastSeq
         /\ Head(queue).kind = "timerFired"
         /\ MockOf(Head(queue).n) = {}
         /\ TwoActivitiesAndTimer(Head(queue).n)) =>
            \E short, long \in 1 .. 2 :
                /\ act[short].wait = MockWaitShort
                /\ act[long].wait = MockWaitLong
                /\ delivered[short] = <<[res |-> "completed", from |-> short]>>
                /\ delivered[long] = <<>>
                /\ DOMAIN activities = {act[long].id}
      ]_vars

\* C15: the main loop enters its blocking select only from the idle branch,
\* with the workflow not completed and the mock clock not advanced; it aborts
\* with the test timeout only from that select, with no callback in the
\* channel, the workflow not completed and the test timeout elapsed since it
\* blocked; and when the timeout has elapsed there with no callback in the
\* channel the abort is the step the main loop takes.
C15_TestTimeoutOnlyWhenIdle ==
    [][ /\ (pc' = "wait" /\ pc # "wait") =>
               /\ pc = "idle"
               /\ ~isTestCompleted
               /\ mockNow' = mockNow
        /\ (pc' = "timeout" /\ pc # "timeout") =>
               /\ pc = "wait"
               /\ queue = <<>>
               /\ ~isTestCompleted
               /\ wallNow - waitStart >= TestTimeout
        /\ (/\ pc = "wait"
            /\ queue = <<>>
            /\ wallNow - waitStart >= TestTimeout
            /\ pc' # pc) => pc' = "timeout"
      ]_vars

\* the test has been aborted with the test timeout
C15_Witness == pc = "timeout" /\ wallNow - waitStart = TestTimeout

\* something the main loop waits on is in flight outside it: the root
\* workflow's mock goroutine, or an activity that runs (and is not blocked in
\* its mock's wait) or whose posted result has not been handled yet
InFlight ==
    \/ wf \in {"mock", "mockPosted"}
    \/ \E g \in 1 .. Len(act) :
           \/ act[g].st \in {"running", "registered", "resumed"}
           \/ \E i \in 1 .. Len(queue) :
                  queue[i].kind = "activityResult" /\ queue[i].n = g

\* C16: where the main loop reads the running count, in the idle branch, the
\* count is zero exactly when nothing is in flight outside the main loop.
C16_RunningCountTracksBackgroundWork ==
    pc = "idle" => (runningCount = 0 <=> ~InFlight)

\* the step in which child Env k completes
Completes(k) == ~child[k].isTestCompleted /\ child'[k].isTestCompleted

\* C17: when a child workflow calls Complete(result, err) it is marked
\* completed and its done signal is closed; while its id is in the child
\* registry the handle is removed and exactly one callback is posted, with
\* start-decision-task = true, that carries the child's error to the callback
\* registered in the handle; when the id has left the registry nothing is
\* posted. Running the posted callback hands the error to that registered
\* callback and starts the decision task of the parent.
C17_ChildCompletionDelivered ==
    [][
        /\ \A k \in 1 .. Len(child) : (Completes(k) =>
              /\ child'[k].doneChannel = "closed"
              /\ IF child[k].id \in DOMAIN childWorkflows
                 THEN /\ child[k].id \notin DOMAIN childWorkflows'
                      /\ Len(queue') = Len(queue) + 1
                      /\ SubSeq(queue', 1, Len(queue)) = queue
                      /\ LET c == queue'[Len(queue')]
                         IN  /\ c.kind = "childComplete"
                             /\ c.startDecisionTask
                             /\ c.res = child'[k].testError
                             /\ c.n = childWorkflows[child[k].id].callback
                 ELSE /\ queue' = queue
                      /\ childWorkflows' = childWorkflows)
        /\ (/\ pc \in {"select", "wait"}
            /\ queue # <<>>
            /\ Head(queue).kind = "childComplete"
            /\ lastSeq' # lastSeq) =>
               /\ child'[Head(queue).n].delivered =
                      Append(child[Head(queue).n].delivered, Head(queue).res)
               /\ pc' = IF isTestCompleted THEN "select" ELSE "dispatch"
               /\ cur' = 0
    ]_vars

\* one child has completed while registered and its result was delivered;
\* another, cancelled before, has completed and nothing was delivered for it
C17_Witness ==
    \E k, j \in 1 .. Len(child) :
        /\ child[k].id # child[j].id
        /\ child[k].isTestCompleted
        /\ Len(child[k].delivered) = 1
        /\ child[j].isTestCompleted
        /\ child[j].nCancelHandler > 0
        /\ child[j].delivered = <<>>
        /\ queue = <<>>

\* the callbacks waiting in the channel that cancel child Env k or tell its listener
CancelPending(k) ==
    \E i \in 1 .. Len(queue) :
        queue[i].kind \in {"childCancel", "childCanceled"} /\ queue[i].n = k

\* C18: when the parent requests the cancellation of a child in the child
\* registry, the child is removed from the registry and its cancel handler
\* is not invoked in the request but by a callback posted for it; once the
\* callbacks of the cancellation have run, the handler has been invoked and
\* the on-child-cancelled listener has fired exactly once for that child; a
\* cancelled child that finishes with a cancelled-error has a cancelled-error
\* as its testError.
C18_ChildCancelledOnce ==
    [][
        \A k \in 1 .. Len(child) :
            /\ (~child[k].cancelRequested /\ child'[k].cancelRequested) =>
                   /\ child[k].id \notin DOMAIN childWorkflows'
                   /\ child'[k].nCancelHandler = child[k].nCancelHandler
                   /\ queue' # <<>>
                   /\ queue'[Len(queue')].kind = "childCancel"
                   /\ queue'[Len(queue')].n = k
            /\ child'[k].nCanceledListener <= 1
            /\ (child'[k].cancelRequested /\ ~CancelPending(k)') =>
                   /\ child'[k].nCancelHandler >= 1
                   /\ child'[k].nCanceledListener = 1
            /\ (child'[k].cancelRequested /\ child'[k].completedWith = "CanceledError") =>
                   child'[k].testError = "CanceledError"
    ]_vars

\* The run of a timers-only workflow as its calls alone define it, without
\* the main loop, the channel's goroutines or the wall clock.

RefInit ==
    [now |-> 0, counter |-> 0, timers |-> <<>>, queue |-> <<>>, fired |-> <<>>,
     events |-> <<>>, completed |-> FALSE, err |-> "nil", end |-> "task"]

\* virtual time jumps to the earliest deadline; the timers due then fire in
\* the order they were created
RefFire(r) ==
    LET at == CHOOSE m \in {r.timers[i].next : i \in 1 .. Len(r.timers)} :
                  \A i \in 1 .. Len(r.timers) : m <= r.timers[i].next
        due == SelectSeq(r.timers, LAMBDA t : t.next = at)
    IN  [r EXCEPT !.now = at,
                  !.timers = SelectSeq(r.timers, LAMBDA t : t.next # at),
                  !.fired = @ \o due,
                  !.queue = @ \o [i \in 1 .. Len(due) |->
                                     [kind |-> "timerFired", id |-> getStringID(due[i].id)]]]

\* from the end of a decision task to the start of the next, or to the end
RECURSIVE RefSettle(_)
RefSettle(r) ==
    IF r.queue # <<>>
    THEN LET c == Head(r.queue)
             r1 == [r EXCEPT !.queue = Tail(@),
                             !.events = Append(@,
                                 [ev |-> IF c.kind = "timerFired" THEN "fired" ELSE "cancelled",
                                  id |-> c.id])]
         IN  IF r.completed THEN RefSettle(r1) ELSE [r1 EXCEPT !.end = "task"]
    ELSE IF r.timers # <<>> THEN RefSettle(RefFire(r))
    ELSE [r EXCEPT !.end = IF r.completed THEN "done" ELSE "stuck"]

RefStep(r, ch) ==
    CASE ch.op = "NewTimer" ->
             [r EXCEPT !.counter = @ + 1,
                       !.timers = Append(@, [id |-> r.counter, next |-> r.now + ch.d]),
                       !.events = Append(@, [ev |-> "scheduled", id |-> getStringID(r.counter)])]
      [] ch.op = "RequestCancelTimer" ->
             IF \E i \in 1 .. Len(r.timers) : getStringID(r.timers[i].id) = ch.id
             THEN [r EXCEPT !.timers = SelectSeq(@, LAMBDA t : getStringID(t.id) # ch.id),
                            !.queue = Append(@, [kind |-> "cancelTimer", id |-> ch.id])]
             ELSE r
      [] ch.op = "Complete" -> RefSettle([r EXCEPT !.completed = TRUE, !.err = ch.id])
      [] OTHER -> RefSettle(r)

RECURSIVE RefRun(_)
RefRun(chs) ==
    IF chs = <<>> THEN RefInit
    ELSE RefStep(RefRun(SubSeq(chs, 1, Len(chs) - 1)), chs[Len(chs)])

\* C19: a workflow that uses only timers runs the same way every time: in
\* every run, the mock clock, the timers fired, the timer listeners' events
\* (scheduled, fired, cancelled) and the callbacks waiting at each point of a
\* decision task, and the error, the mock-clock time and the listener events
\* at the end, are the ones the workflow's own calls define, so that two runs
\* of a workflow that makes the same calls agree on them.
C19_TimersOnlyDeterministic ==
    LET r == RefRun(choices)
    IN  /\ (pc = "dispatch" /\ wf = "running") =>
               /\ r.end = "task"
               /\ ~r.completed
               /\ mockNow = r.now
               /\ counterID = r.counter
               /\ clockTimers = r.timers
               /\ fireOrder = r.fired
               /\ events = r.events
               /\ [i \in 1 .. Len(queue) |-> [kind |-> queue[i].kind, id |-> queue[i].id]]
                      = r.queue
        /\ pc = "done" =>
               /\ r.end = "done"
               /\ isTestCompleted
               /\ testError = r.err
               /\ mockNow = r.now
               /\ fireOrder = r.fired
               /\ events = r.events
        /\ pc = "timeout" =>
               /\ r.end = "stuck"
               /\ ~isTestCompleted
               /\ mockNow = r.now
               /\ fireOrder = r.fired
               /\ events = r.events

\* a run has ended after two timers fired at different times and one was cancelled
C19_Witness ==
    /\ pc = "done"
    /\ Len(fireOrder) = 2
    /\ fireOrder[1].next < fireOrder[2].next
    /\ \E i \in 1 .. Len(events) : events[i].ev = "cancelled"
    /\ testError = "CanceledError"

\* C20: posting to the callback channel never blocks its consumer: the
\* main-loop thread is never blocked inside postCallback on a full channel,
\* also when it posts itself while it fires timers, cancels activities or
\* timers from the dispatcher, or delivers a child's completion.
C20_MainLoopNeverBlockedInPost == pc # "blockedInPost"

\* child Env k runs workflow code: its decision task is in progress and its
\* workflow function has started and not returned
ChildRunsWorkflowCode(k) ==
    /\ pc = "dispatch"
    /\ cur = k
    /\ child[k].st = "running"
    /\ ~child[k].isTestCompleted

\* C21: a child Env is live only while its id is in the child registry: once
\* the id has been removed, by completion or by a cancel request, the child
\* executes no further workflow code.
C21_ChildLiveOnlyWhileRegistered ==
    \A k \in 1 .. Len(child) :
        ChildRunsWorkflowCode(k) => child[k].id \in DOMAIN childWorkflows

\* the ids of the activities started so far
ActivityIDs == {act[g].id : g \in 1 .. Len(act)}

\* the ids of the timers that wait or have fired
TimerIDs ==
    DOMAIN timers \cup {getStringID(fireOrder[i].id) : i \in 1 .. Len(fireOrder)}

\* C22: no timer id equals an activity id, whether the activity id is the
\* caller's own or minted from the counter, and registering an activity
\* never overwrites a handle that is in the registry, that is, whose outcome
\* is still undelivered: no two live activities share an id.
C22_IdsNeverAlias ==
    [][
        /\ TimerIDs' \cap ActivityIDs' = {}
        /\ Len(act') > Len(act) => act'[Len(act')].id \notin DOMAIN activities
    ]_vars

\* what only the main-loop thread may write: isTestCompleted and the final
\* error of the root Env and of every child Env, and the registries
SingleWriterVars ==
    <<isTestCompleted, testError, activities, timers, childWorkflows,
      [k \in 1 .. Len(child) |-> <<child[k].isTestCompleted, child[k].testError>>]>>

\* the same after the step, for the Envs there were before it
SingleWriterVarsNext ==
    <<isTestCompleted', testError', activities', timers', childWorkflows',
      [k \in 1 .. Len(child) |-> <<child'[k].isTestCompleted, child'[k].testError>>]>>

\* C23: only the main-loop thread writes isTestCompleted, the final error
\* and the activity, timer and child registries: a step that changes one of
\* them is the main loop processing a callback, workflow code inside a
\* decision task, or the main loop's auto-fire in its idle branch; the
\* goroutines and the test author's entry points, which may step at any
\* position of the main loop, change none of them.
C23_MainLoopOnlyWriter ==
    [][
        SingleWriterVarsNext # SingleWriterVars =>
            \/ lastSeq' # lastSeq
            \/ pc = "dispatch"
            \/ pc = "idle"
    ]_vars

\* an activity's result, sent by its goroutine, has been handled and its
\* handle removed, and the root workflow has completed
C23_Witness ==
    /\ Len(act) >= 1
    /\ act[1].st \in {"posted", "done"}
    /\ delivered[1] # <<>>
    /\ act[1].id \notin DOMAIN activities
    /\ isTestCompleted

\* the step is RequestCancelTimer(id) on a pending timer: workflow code
\* removes the handle from the registry
CancelsTimer(id) ==
    /\ pc = "dispatch"
    /\ id \in DOMAIN timers
    /\ id \notin DOMAIN timers'

\* C24: RequestCancelTimer(id) on a pending timer deletes the handle from
\* the registry, stops the timer's mock-clock timer and its wall-clock guard
\* when one is armed, and posts one callback with start-decision-task = true
\* that hands a cancelled-error to the timer's callback: after the call no
\* timer object of the handle is armed.
C24_CancelTimerStopsAll ==
    [][
        \A id \in DOMAIN timers : CancelsTimer(id) =>
            /\ \A i \in 1 .. Len(clockTimers') : clockTimers'[i].id # timers[id].timerID
            /\ \A w \in wallTimers' : w.id # timers[id].timerID
            /\ Len(queue') = Len(queue) + 1
            /\ SubSeq(queue', 1, Len(queue)) = queue
            /\ queue'[Len(queue')].kind = "cancelTimer"
            /\ queue'[Len(queue')].startDecisionTask
            /\ queue'[Len(queue')].id = id
    ]_vars

\* the auto-fire policy is about to run with activities running and the guard
\* of the next timer set (the policy's step is the one that leaves "idle")
GuardSet ==
    /\ pc = "idle"
    /\ DOMAIN timers # {}
    /\ runningCount > 0
    /\ nextTimer.wallTimer

\* C25: when the auto-fire policy runs with running-count > 0 and the next
\* timer has a wall-clock guard already: a guard whose wall-fire-time is
\* earlier than the newly computed one is left as it is with its
\* wall-fire-time; a guard whose wall-fire-time is later is stopped and a new
\* one is armed at the newly computed time. At most one guard is armed per
\* timer, and the wall-fire-time of a guard is never pushed later.
C25_GuardNeverPushedLater ==
    [][
        /\ GuardSet /\ pc' # pc =>
               LET key == getStringID(nextTimer.timerID)
                   old == nextTimer.wallTimeToFire
                   new == wallNow + (nextTimer.mockTimeToFire - mockNow)
               IN  /\ old < new => timers' = timers /\ wallTimers' = wallTimers
                   /\ old > new =>
                          /\ timers'[key].wallTimeToFire = new
                          /\ [id |-> nextTimer.timerID, at |-> new] \in wallTimers'
                          /\ [id |-> nextTimer.timerID, at |-> old] \notin wallTimers'
        /\ \A v, w \in wallTimers' : v.id = w.id => v = w
        /\ \A key \in DOMAIN timers \cap DOMAIN timers' :
               timers[key].wallTimer =>
                   timers'[key].wallTimeToFire <= timers[key].wallTimeToFire
    ]_vars

\* a guard was stopped and another one armed earlier for the same timer
C25_Witness ==
    \E key \in DOMAIN timers :
        /\ timers[key].wallTimer
        /\ timers[key].stoppedGuard > timers[key].wallTimeToFire
        /\ [id |-> timers[key].timerID, at |-> timers[key].wallTimeToFire] \in wallTimers
        /\ runningCount > 0

\* C26: in the idle branch the main loop attempts the auto-fire and then, if
\* the test has completed, exits: once the root workflow has completed the
\* loop returns at the first iteration that finds the queue empty, whether or
\* not the auto-fire of that iteration advanced a timer, and it returns
\* normally only when isTestCompleted is true.
C26_ExitAtFirstIdle ==
    [][
        /\ pc = "idle" /\ isTestCompleted /\ pc' # pc => pc' = "done"
        /\ pc' = "done" => isTestCompleted'
    ]_vars

\* the main loop is about to process the callback of a wall-clock guard whose
\* timer is still in the registry
GuardCallback ==
    /\ pc \in {"select", "wait"}
    /\ queue # <<>>
    /\ Head(queue).kind = "wallTimerFired"
    /\ Head(queue).id \in DOMAIN timers

\* C27: the mock clock is monotonic: over any sequence of NewTimer,
\* RegisterDelayedCallback, cancels, auto-fires and wall-clock guard fires the
\* value of Now() never decreases, and after a timer is fired by the auto-fire
\* policy or by its guard Now() equals the mock-fire-time of that timer.
C27_MockClockMonotonic ==
    [][
        /\ mockNow' >= mockNow
        /\ pc = "idle" /\ DOMAIN timers # {} /\ runningCount = 0
               /\ pc' \notin {pc, "blockedInPost"} =>
               mockNow' = nextTimer.mockTimeToFire
        /\ GuardCallback /\ lastSeq' # lastSeq /\ pc' # "blockedInPost" =>
               mockNow' = timers[Head(queue).id].mockTimeToFire
    ]_vars

\* the clock moved twice, the last time to the deadline of the timer fired last
C27_Witness ==
    /\ Len(fireOrder) >= 2
    /\ fireOrder[1].next < fireOrder[Len(fireOrder)].next
    /\ mockNow = fireOrder[Len(fireOrder)].next

\* the increments of the running count whose decrement is still to come: an
\* activity from ExecuteActivity to the decrement of its goroutine, less the
\* time its mock call is blocked; the root workflow from Execute to its
\* resumption from Receive; a child workflow from ExecuteChildWorkflow to its
\* resumption from Receive
Counted ==
    Cardinality({g \in 1 .. Len(act) :
                    act[g].st \in {"running", "registered", "resumed", "posted"}})
    + (IF wf \in {"mock", "mockPosted"} THEN 1 ELSE 0)
    + Cardinality({k \in 1 .. Len(child) :
                      child[k].st \in {"starting", "executePosted", "mock", "mockPosted"}})

\* C28: the running count is never negative, and every increment is matched
\* by exactly one decrement: the count is never above the number of
\* increments whose decrement is still to come. This holds for
\* workflow-driven activities, for
\* wait-duration mocks of activities and workflows, for child workflows, and
\* for a mocked activity run through the one-shot executeActivity path, where
\* no increment of ExecuteActivity precedes the decrement of the mock.
C28_RunningCountBalanced ==
    /\ runningCount >= 0
    /\ runningCount <= Counted

\* the number of times the user callback of timer id has run or is about to
\* run: its listener events and its callbacks waiting in the channel
Invocations(id) ==
    Cardinality({i \in 1 .. Len(events) :
                    events[i].ev \in {"fired", "cancelled"} /\ events[i].id = id})
    + Cardinality({i \in 1 .. Len(queue) :
                      queue[i].kind \in {"timerFired", "cancelTimer"} /\ queue[i].id = id})

\* C29: the user callback of every timer created by NewTimer is invoked at
\* most once, with (nil, nil) on fire or with a cancelled-error on cancel and
\* never both: a timer cancelled while its wall-clock guard is armed does not
\* fire when the guard runs later, and a timer that has fired is not
\* affected by a later cancel or by a stale guard callback.
C29_TimerCallbackAtMostOnce ==
    \A id \in MintedIDs : Invocations(id) <= 1

\* the guard of a cancelled timer has run: its callback is the next one the
\* main loop processes
C29_Witness ==
    /\ queue # <<>>
    /\ Head(queue).kind = "wallTimerFired"
    /\ \E i \in 1 .. Len(events) :
           events[i] = [ev |-> "cancelled", id |-> Head(queue).id]

\* C30: the fire callbacks of timers are enqueued in non-decreasing order of
\* mock-fire-time: no timer fires while a pending timer with a strictly
\* earlier mock-fire-time remains in the registry, also when the fire is
\* triggered by the wall-clock guard of a timer that is no longer the
\* earliest pending one.
C30_FireOrderByMockTime ==
    /\ \A i, j \in 1 .. Len(fireOrder) :
           i < j => fireOrder[i].next <= fireOrder[j].next
    /\ \A i \in 1 .. Len(fireOrder) : \A k \in DOMAIN timers :
           fireOrder[i].next <= timers[k].mockTimeToFire

\* the guard of a later timer has fired an earlier timer on the way: the
\* callbacks of both wait in the channel, the earlier one first
C30_Witness ==
    /\ Len(queue) >= 2
    /\ queue[1].kind = "timerFired"
    /\ queue[2].kind = "timerFired"
    /\ \E i, j \in 1 .. Len(fireOrder) :
           /\ fireOrder[i].id = queue[1].n
           /\ fireOrder[j].id = queue[2].n
           /\ fireOrder[i].next < fireOrder[j].next

\* the step is a call of Complete on an Env that has completed
CompleteOnCompleted == nNoop' # nNoop /\ lastOp'.op = "Complete"

\* C31: Complete is idempotent on an Env: after the first Complete has set
\* isTestCompleted, a second call changes neither the result nor testError,
\* does not close the done signal again and posts no callback to the parent;
\* and no decision task is started on that Env afterwards, although the
\* callbacks addressed to it still run.
C31_CompleteIdempotent ==
    [][
        /\ CompleteOnCompleted =>
               UNCHANGED <<isTestCompleted, testError, child, childWorkflows,
                           queue, nPosted, pc>>
        /\ isTestCompleted => ~(pc' = "dispatch" /\ cur' = 0)
        /\ \A k \in 1 .. Len(child) :
               child[k].isTestCompleted => ~(pc' = "dispatch" /\ cur' = k)
    ]_vars

\* Complete was called again on a child Env that had completed with another
\* outcome than a cancellation, and a cancel callback addressed to it has run
C31_Witness ==
    \E k \in 1 .. Len(child) :
        /\ lastOp.op = "Complete"
        /\ lastOp.id = child[k].id
        /\ child[k].isTestCompleted
        /\ child[k].doneChannel = "closed"
        /\ child[k].completedWith = "nil"
        /\ child[k].nCancelHandler >= 1

====
